---------------------------- MODULE Spec2Model ----------------------------
(***************************************************************************)
(* Model of mecat/register.py (ANSTO MetaMan ingestion).                   *)
(*                                                                         *)
(* Text is modelled as it is in the program: a string is a sequence of     *)
(* one-character strings, and slicing, splitting and replacing are         *)
(* computed the way Python computes them.                                  *)
(*                                                                         *)
(* Five specifications share the module:                                   *)
(*   Spec        the block parser, one line at a time, and the dataset     *)
(*               grouper once the stream has ended (register.py 466-528);  *)
(*   MarkerSpec  the same, with a registry whose beamline has a metadata   *)
(*               file pattern (register.py 165-183);                       *)
(*   PathSpec    the same, on marker lines with unusual paths;             *)
(*   SampleSpec  the sample-sheet loop, one line at a time (428-463);      *)
(*   IngestSpec  whole ingestion requests against the repository, each     *)
(*               request one transaction (register.py 273-726).            *)
(***************************************************************************)
EXTENDS Integers, Sequences, FiniteSets, TLC

(***************************************************************************)
(* Bounds of the model.                                                    *)
(***************************************************************************)
\* lines of one MetaMan stream (Spec)
MaxLines == 4

\* lines of one sample sheet (SampleSpec)
MaxSampleLines == 4

\* requests handled one after the other (IngestSpec)
MaxRequests == 2

(***************************************************************************)
(* Python string operations on sequences of characters.                    *)
(***************************************************************************)
Min2(a, b) == IF a < b THEN a ELSE b

Max2(a, b) == IF a > b THEN a ELSE b

\* F applied to the value of v: v is evaluated once, as a statement
\* evaluates the state before it once
Bind(v, F(_)) == CHOOSE y \in {F(x) : x \in {v}} : TRUE

\* s[i:j] for Python indices i, j (negative indices count from the end)
PyIndex(s, k) == IF k < 0 THEN Max2(Len(s) + k, 0) ELSE Min2(k, Len(s))

PySlice(s, i, j) ==
    LET a == PyIndex(s, i)
        b == PyIndex(s, j)
    IN  IF a < b THEN SubSeq(s, a + 1, b) ELSE <<>>

\* s[i:]
PySliceFrom(s, i) == PySlice(s, i, Len(s))

\* the 1-based positions at which sep occurs in s
Occurrences(s, sep) ==
    {i \in 1..(Len(s) - Len(sep) + 1) : SubSeq(s, i, i + Len(sep) - 1) = sep}

\* position of the first occurrence of sep in s, 0 if there is none
Find(s, sep) ==
    LET hits == Occurrences(s, sep)
    IN  IF hits = {} THEN 0 ELSE CHOOSE i \in hits : \A j \in hits : i <= j

\* position of the last occurrence of sep in s, 0 if there is none
RFind(s, sep) ==
    LET hits == Occurrences(s, sep)
    IN  IF hits = {} THEN 0 ELSE CHOOSE i \in hits : \A j \in hits : i >= j

\* s.split(sep, maxsplit); maxsplit < 0 means no limit
RECURSIVE SplitN(_, _, _)
SplitN(s, sep, maxsplit) ==
    LET i == Find(s, sep)
    IN  IF i = 0 \/ maxsplit = 0
        THEN <<s>>
        ELSE <<SubSeq(s, 1, i - 1)>> \o
             SplitN(SubSeq(s, i + Len(sep), Len(s)), sep, maxsplit - 1)

\* s.split(sep)
Split(s, sep) == SplitN(s, sep, -1)

\* s.rsplit(sep, 1)
RSplit1(s, sep) ==
    LET i == RFind(s, sep)
    IN  IF i = 0 THEN <<s>>
        ELSE <<SubSeq(s, 1, i - 1), SubSeq(s, i + Len(sep), Len(s))>>

\* s.replace(old, new): one pass, left to right, over non-overlapping matches
RECURSIVE Replace(_, _, _)
Replace(s, old, new) ==
    LET i == Find(s, old)
    IN  IF i = 0 THEN s
        ELSE SubSeq(s, 1, i - 1) \o new \o
             Replace(SubSeq(s, i + Len(old), Len(s)), old, new)

\* s.startswith(p)
StartsWith(s, p) == Len(p) <= Len(s) /\ SubSeq(s, 1, Len(p)) = p

\* os.path.basename(p): what follows the last '/'
basename(p) == SubSeq(p, RFind(p, <<"/">>) + 1, Len(p))

UpperChars == <<"A","B","C","D","E","F","G","H","I","J","K","L","M",
                "N","O","P","Q","R","S","T","U","V","W","X","Y","Z">>

LowerChars == <<"a","b","c","d","e","f","g","h","i","j","k","l","m",
                "n","o","p","q","r","s","t","u","v","w","x","y","z">>

ToLower ==
    [c \in {UpperChars[i] : i \in 1..Len(UpperChars)} |->
        LowerChars[CHOOSE i \in 1..Len(UpperChars) : UpperChars[i] = c]]

LowerChar(c) == IF c \in DOMAIN ToLower THEN ToLower[c] ELSE c

\* s.lower()
Lower(s) == [i \in 1..Len(s) |-> LowerChar(s[i])]

\* x in list
InList(x, list) == \E i \in 1..Len(list) : list[i] = x

(***************************************************************************)
(* Literals of the program.                                                *)
(***************************************************************************)
TagOpen == <<"<","b",">">>

TagClose == <<"<","/","b",">",":">>

KeyValueSep == <<" ",":"," ">>

FileSizeKey == <<"F","i","l","e"," ","S","i","z","e">>

BytesSuffix == <<" ","b","y","t","e","s">>

SampleNameKey == <<"s","a","m","p","l","e","_","n","a","m","e">>

LogBookPrefix == <<"L","o","g","B","o","o","k">>

LogBooksName == <<"L","o","g"," ","B","o","o","k","s">>

Wombat == <<"W","o","m","b","a","t">>

Echidna == <<"E","c","h","i","d","n","a">>

Kowari == <<"K","o","w","a","r","i">>

Platypus == <<"P","l","a","t","y","p","u","s">>

Quokka == <<"Q","u","o","k","k","a">>

\* the absent pattern (Python None); a compiled pattern has alternatives
NoPattern == {}

(***************************************************************************)
(* The lines a MetaMan stream is made of in the model: markers of a        *)
(* selected beamline (accepted and not), of another registry beamline,     *)
(* the blank line, metadata lines (repeated and differently written keys,  *)
(* a value holding ' : ', the file size), a line without separator and a   *)
(* marker whose path has no leading '/'.                                   *)
(***************************************************************************)
LinePool ==
    << \* 1: <b>/Wombat/RunA/f.hdf</b>:
       <<"<","b",">","/","W","o","m","b","a","t","/","R","u","n","A","/","f",".","h","d","f","<","/","b",">",":">>,
       \* 2: <b>/Wombat/LogBook1/n.PDF</b>:
       <<"<","b",">","/","W","o","m","b","a","t","/","L","o","g","B","o","o","k","1","/","n",".","P","D","F","<","/","b",">",":">>,
       \* 3: <b>/Echidna/d/h.hdf</b>:
       <<"<","b",">","/","E","c","h","i","d","n","a","/","d","/","h",".","h","d","f","<","/","b",">",":">>,
       \* 4: <b>/Wombat/d/f.txt</b>:
       <<"<","b",">","/","W","o","m","b","a","t","/","d","/","f",".","t","x","t","<","/","b",">",":">>,
       \* 5: the blank line
       <<>>,
       \* 6: sample_name : RunA
       <<"s","a","m","p","l","e","_","n","a","m","e"," ",":"," ","R","u","n","A">>,
       \* 7: sample /_name : LogBook : c
       <<"s","a","m","p","l","e"," ","/","_","n","a","m","e"," ",":"," ","L","o","g","B","o","o","k"," ",":"," ","c">>,
       \* 8: File Size : 12 bytes
       <<"F","i","l","e"," ","S","i","z","e"," ",":"," ","1","2"," ","b","y","t","e","s">>,
       \* 9: k : 5 mm
       <<"k"," ",":"," ","5"," ","m","m">>,
       \* 10: junk
       <<"j","u","n","k">>,
       \* 11: <b>Wombat/RunA/f.hdf</b>:
       <<"<","b",">","W","o","m","b","a","t","/","R","u","n","A","/","f",".","h","d","f","<","/","b",">",":">> >>

\* the beamline field of the request, split on ', ' (292)
BeamlineRequests ==
    { <<Wombat>>, <<<<"B","o","g","u","s">>, Echidna, Wombat>> }

(***************************************************************************)
(* The beamline configuration registry.                                    *)
(* A compiled pattern '.*\.(pdf)$|.*\.(hdf)$' with re.IGNORECASE is the    *)
(* set of its alternatives' suffixes, in lower case.                       *)
(***************************************************************************)
FiletypesPdfHdf == {<<".","p","d","f">>, <<".","h","d","f">>}

ConfigKeys == {Echidna, Kowari, Platypus, Quokka, Wombat}

BeamlineConfig(b) ==
    [dfSchema |->
        CASE b = Echidna  -> "http://www.tardis.edu.au/schemas/ansto/ech/2011/06/21"
          [] b = Kowari   -> "http://www.tardis.edu.au/schemas/ansto/kwr/2011/06/21"
          [] b = Platypus -> "http://www.tardis.edu.au/schemas/ansto/plp/2011/06/21"
          [] b = Quokka   -> "http://www.tardis.edu.au/schemas/ansto/qkk/2011/06/21"
          [] OTHER        -> "http://www.tardis.edu.au/schemas/ansto/wbt/2011/06/21",
     filetypes |-> FiletypesPdfHdf,
     groupDSRules |-> <<"sample">>,
     metadata |-> NoPattern,
     beamline_group |->
        CASE b = Echidna  -> "BEAMLINE_ECH"
          [] b = Kowari   -> "BEAMLINE_KWR"
          [] b = Platypus -> "BEAMLINE_PLP"
          [] b = Quokka   -> "BEAMLINE_QKK"
          [] OTHER        -> "BEAMLINE_WBT"]

config == [b \in ConfigKeys |-> BeamlineConfig(b)]

\* pattern.match(s) is not None, for a pattern of the registry
PatternMatch(pattern, s) ==
    \E suffix \in pattern :
        /\ Len(suffix) <= Len(s)
        /\ SubSeq(Lower(s), Len(s) - Len(suffix) + 1, Len(s)) = suffix

(***************************************************************************)
(* class Datafile.                                                         *)
(***************************************************************************)
EmptyData == [k \in {} |-> <<>>]

\* Datafile(name); the size 0 of a fresh record is the text "0"
Datafile(name) == [name |-> name, data |-> EmptyData, size |-> <<"0">>]

\* mutant: a repeated key keeps only its latest value
Datafile_setitem_Overwrite(df, key, value) ==
    IF key = FileSizeKey
    THEN [df EXCEPT !.size = Replace(value, BytesSuffix, <<>>)]
    ELSE LET k == Replace(Replace(key, <<" ">>, <<>>), <<"/">>, <<>>)
         IN  [df EXCEPT !.data =
                [x \in DOMAIN df.data \cup {k} |->
                    IF x = k THEN <<value>> ELSE df.data[x]]]

\* df[key] = value
Datafile_setitem(df, key, value) ==
    IF key = FileSizeKey
    THEN [df EXCEPT !.size = Replace(value, BytesSuffix, <<>>)]
    ELSE LET k == Replace(Replace(key, <<" ">>, <<>>), <<"/">>, <<>>)
         IN  [df EXCEPT !.data =
                [x \in DOMAIN df.data \cup {k} |->
                    IF x = k
                    THEN IF k \in DOMAIN df.data
                         THEN Append(df.data[k], value)
                         ELSE <<value>>
                    ELSE df.data[x]]]

\* mutant: a record counts as having metadata whatever it holds
hasMetadata_Always(df) == TRUE

hasMetadata(df) == Cardinality(DOMAIN df.data) > 0

getBeamline(df) == Split(df.name, <<"/">>)[1]

(***************************************************************************)
(* _acceptFile, _isDatasetMetadata, _getDatasetName.                       *)
(***************************************************************************)
\* mutant: every file type is accepted
acceptFile_AnyType(name, beamline) == TRUE

acceptFile(name, beamline) ==
    PatternMatch(config[beamline].filetypes, basename(name))

\* registry is the module's _config as it stands when the function runs
isDatasetMetadata(registry, df, beamline) ==
    LET pattern == registry[beamline].metadata
    IN  IF pattern # NoPattern
        THEN PatternMatch(pattern, basename(df.name))
        ELSE FALSE

\* mutant: the LogBook coercion is applied to a sample_name value too
getDatasetName_CoerceAll(df, beamline) ==
    LET tokens == Split(df.name, <<"/">>)
        name == IF SampleNameKey \in DOMAIN df.data
                THEN df.data[SampleNameKey][1]
                ELSE tokens[2]
    IN  [error |-> "none",
         name |-> IF StartsWith(name, LogBookPrefix) THEN LogBooksName ELSE name]

\* mutant: the name defaults to the path's third segment
getDatasetName_ThirdSegment(df, beamline) ==
    LET tokens == Split(df.name, <<"/">>)
    IN  IF SampleNameKey \in DOMAIN df.data
        THEN [error |-> "none", name |-> df.data[SampleNameKey][1]]
        ELSE IF Len(tokens) < 3
        THEN [error |-> "IndexError", name |-> <<>>]
        ELSE IF StartsWith(tokens[3], LogBookPrefix)
        THEN [error |-> "none", name |-> LogBooksName]
        ELSE [error |-> "none", name |-> tokens[3]]

\* The result is [error, name]: error is "none", or the exception the
\* function raises ("IndexError" when the path has no such segment).
getDatasetName(df, beamline) ==
    LET rules == config[beamline].groupDSRules
        ds_rule == rules[1]
        tokens == Split(df.name, <<"/">>)
    IN  IF ds_rule = "file"
        THEN [error |-> "none", name |-> RSplit1(df.name, rules[2])[1]]
        ELSE IF ds_rule = "directory"
        THEN IF rules[2] + 1 <= Len(tokens)
             THEN [error |-> "none", name |-> tokens[rules[2] + 1]]
             ELSE [error |-> "IndexError", name |-> <<>>]
        ELSE IF ds_rule = "sample"
        THEN IF SampleNameKey \in DOMAIN df.data
             THEN [error |-> "none", name |-> df.data[SampleNameKey][1]]
             ELSE IF Len(tokens) < 2
             THEN [error |-> "IndexError", name |-> <<>>]
             ELSE IF StartsWith(tokens[2], LogBookPrefix)
             THEN [error |-> "none", name |-> LogBooksName]
             ELSE [error |-> "none", name |-> tokens[2]]
        ELSE [error |-> "none", name |-> df.name]

(***************************************************************************)
(* _parse_metaman, part I: one iteration of the loop over the lines of     *)
(* the MetaMan stream.  st = [df, files]: df is the index in files of the  *)
(* current Datafile, 0 for None.  A line is the text left by rstrip('\n'). *)
(***************************************************************************)
\* mutant: the path is the whole text between the tags
ParseLine_WholeText(st, line, beamlines) ==
    IF PySlice(line, 0, 3) = TagOpen /\ PySliceFrom(line, -5) = TagClose
    THEN LET path == PySlice(line, 3, -5)
             beamline == Split(path, <<"/">>)[1]
         IN  IF ~InList(beamline, beamlines)
             THEN st
             ELSE IF acceptFile(path, beamline)
             THEN [df |-> Len(st.files) + 1,
                   files |-> Append(st.files, Datafile(path))]
             ELSE st
    ELSE IF line = <<>>
    THEN [st EXCEPT !.df = 0]
    ELSE IF st.df # 0
    THEN LET token == SplitN(line, KeyValueSep, 1)
         IN  IF Len(token) > 1
             THEN [st EXCEPT !.files[st.df] =
                        Datafile_setitem(st.files[st.df], token[1], token[2])]
             ELSE st
    ELSE st

ParseLine(st, line, beamlines) ==
    IF PySlice(line, 0, 3) = TagOpen /\ PySliceFrom(line, -5) = TagClose
    THEN LET path == PySlice(line, 4, -5)
             beamline == Split(path, <<"/">>)[1]
         IN  IF ~InList(beamline, beamlines)
             THEN st
             ELSE IF acceptFile(path, beamline)
             THEN [df |-> Len(st.files) + 1,
                   files |-> Append(st.files, Datafile(path))]
             ELSE st
    ELSE IF line = <<>>
    THEN [st EXCEPT !.df = 0]
    ELSE IF st.df # 0
    THEN LET token == SplitN(line, KeyValueSep, 1)
         IN  IF Len(token) > 1
             THEN [st EXCEPT !.files[st.df] =
                        Datafile_setitem(st.files[st.df], token[1], token[2])]
             ELSE st
    ELSE st

(***************************************************************************)
(* _parse_metaman, part II: one iteration of the loop over the files.      *)
(* g = [datasets, metadata, error]: datasets maps a dataset name to the    *)
(* list of its files (indices in files), metadata maps it to the record    *)
(* holding the dataset's metadata: file is 0 for a DatasetMetadata object  *)
(* and the index of the Datafile otherwise.                                *)
(***************************************************************************)
PutKey(f, k, v) == [x \in DOMAIN f \cup {k} |-> IF x = k THEN v ELSE f[x]]

\* mutant: a dataset's list is started anew for every file
GroupFile_NoAppend(registry, g, files, i) ==
    LET df == files[i]
        dsName == getDatasetName(df, getBeamline(df)).name
    IN  IF ~hasMetadata(df)
        THEN g
        ELSE [g EXCEPT
                !.metadata = PutKey(g.metadata, dsName,
                    [file |-> 0, data |-> [k \in {SampleNameKey} |-> <<dsName>>]]),
                !.datasets = PutKey(g.datasets, dsName, <<i>>)]

GroupFile(registry, g, files, i) ==
    LET df == files[i]
    IN  IF g.error # "none" \/ ~hasMetadata(df)
        THEN g
        ELSE LET beamline == getBeamline(df)
                 r == getDatasetName(df, beamline)
                 dsName == r.name
                 placeholder == [file |-> 0,
                                 data |-> [k \in {SampleNameKey} |-> <<dsName>>]]
             IN  IF r.error # "none"
                 THEN [g EXCEPT !.error = r.error]
                 ELSE IF ~isDatasetMetadata(registry, df, beamline)
                 THEN [g EXCEPT
                        !.metadata = PutKey(g.metadata, dsName, placeholder),
                        !.datasets = PutKey(g.datasets, dsName,
                            IF dsName \in DOMAIN g.datasets
                            THEN Append(g.datasets[dsName], i)
                            ELSE <<i>>)]
                 ELSE [g EXCEPT
                        !.metadata = PutKey(g.metadata, dsName,
                                            [file |-> i, data |-> df.data])]

\* the loop of 512-528 from file i on; an exception ends it
RECURSIVE GroupAll(_, _, _, _)
GroupAll(registry, g, files, i) ==
    IF i > Len(files) \/ g.error # "none"
    THEN g
    ELSE Bind(GroupFile(registry, g, files, i),
              LAMBDA g1 : GroupAll(registry, g1, files, i + 1))

\* the beamlines of the request that are keys of the registry (338-341)
FilterBeamlines(unfiltered) == SelectSeq(unfiltered, LAMBDA b : b \in ConfigKeys)

(***************************************************************************)
(* The repository (tardis_portal.models) as the program uses it.           *)
(* A table is the sequence of its rows in creation order; ids come from    *)
(* one counter.  The parameters of a parameter set are kept in its row     *)
(* (deleting a set deletes them).  A context c carries the repository      *)
(* through the statements of one request: c.error is "none" or the         *)
(* exception that ended it, c.writes counts the writes attempted,          *)
(* c.psaves the parameter saves of _save_parameters, c.lost those of them  *)
(* that failed.  Which write fails is chosen by the request's fault:       *)
(* the c.faultWrite-th write raises, as does every parameter save of       *)
(* _save_parameters whose number is in c.faultPsaves.  c.gen numbers the   *)
(* request and is recorded in the rows it creates.                         *)
(***************************************************************************)
expSchema == "http://www.tardis.edu.au/schemas/ansto/experiment/2011/06/21"

dsSchema == "http://gendsschema.com/"

sampleSchema == "http://www.tardis.edu.au/schemas/ansto/sample/2011/06/21"

chemicalSchema == "http://www.tardis.edu.au/schemas/ansto/chemical/2011/06/21"

EmptyDb ==
    [seq |-> 0, experiments |-> <<>>, authors |-> <<>>, psets |-> <<>>,
     datasets |-> <<>>, datafiles |-> <<>>, acls |-> <<>>, groups |-> {}]

NewContext(db, gen, faultWrite, faultPsaves) ==
    [db |-> db, gen |-> gen, error |-> "none", writes |-> 0, psaves |-> 0,
     lost |-> 0, faultWrite |-> faultWrite, faultPsaves |-> faultPsaves]

\* mutant: a failed write is passed over
DbWrite_Swallow(c, newdb) ==
    IF c.error # "none" THEN c
    ELSE IF c.writes + 1 = c.faultWrite
    THEN [c EXCEPT !.writes = @ + 1]
    ELSE [c EXCEPT !.writes = @ + 1, !.db = newdb]

\* a save() or delete() outside a try block: the write changes the
\* repository to newdb, or raises
DbWrite(c, newdb) ==
    IF c.error # "none" THEN c
    ELSE IF c.writes + 1 = c.faultWrite
    THEN [c EXCEPT !.writes = @ + 1, !.error = "DatabaseError"]
    ELSE [c EXCEPT !.writes = @ + 1, !.db = newdb]

\* models.ParameterName.objects.get(schema=schema, name__iexact=key): the
\* names of the schema's catalog that match key
NameMatches(catalog, schema, key) ==
    {n \in catalog[schema] : Lower(n.name) = Lower(key)}

\* the row of parameter set psetId with parameter p added
AddParameter(db, psetId, p) ==
    [db EXCEPT !.psets =
        [i \in 1..Len(@) |->
            IF @[i].id = psetId
            THEN [@[i] EXCEPT !.params = Append(@, p)]
            ELSE @[i]]]

\* <ParameterSet>(schema=schema, <owner>=owner).save(); the new row's id is
\* c.db.seq + 1
SaveParameterSet(c, kind, schema, owner) ==
    DbWrite(c, [c.db EXCEPT
        !.seq = @ + 1,
        !.psets = Append(@, [id |-> c.db.seq + 1, kind |-> kind,
                             schema |-> schema, owner |-> owner,
                             gen |-> c.gen, params |-> <<>>])])

\* mutant: the earlier parameter sets are kept
DeleteParameterSets_Keep(c, kind, schema, owner) == DbWrite(c, c.db)

\* <ParameterSet>.objects.filter(schema=schema, <owner>=owner).delete()
DeleteParameterSets(c, kind, schema, owner) ==
    DbWrite(c, [c.db EXCEPT !.psets =
        SelectSeq(@, LAMBDA r : ~(r.kind = kind /\ r.schema = schema /\ r.owner = owner))])

(***************************************************************************)
(* _parse_metaman, the sample sheet (414-463): one iteration of the loop   *)
(* over its lines.  s = [c, sample_ps, chemical_ps]: the ids of the        *)
(* current parameter sets, 0 for None.                                     *)
(***************************************************************************)
SampleDescriptionKey == <<"S","a","m","p","l","e","D","e","s","c","r","i","p","t","i","o","n">>

ChemicalNameKey == <<"C","h","e","m","i","c","a","l","N","a","m","e">>

\* mutant: a new sample grouping leaves the chemical grouping open
SampleLine_KeepChemical(s, line, catalog, experiment) ==
    IF s.c.error # "none" \/ line = <<>>
    THEN s
    ELSE LET parts == Split(line, KeyValueSep)
         IN  IF Len(parts) # 2
             THEN [s EXCEPT !.c.error = "ValueError"]
             ELSE LET key == parts[1]
                      value == parts[2]
                      id == s.c.db.seq + 1
                      s1 == IF key = SampleDescriptionKey \/ s.sample_ps = 0
                            THEN [s EXCEPT
                                    !.c = SaveParameterSet(s.c, "Experiment",
                                                           sampleSchema, experiment),
                                    !.sample_ps = id]
                            ELSE IF key = ChemicalNameKey
                            THEN [s EXCEPT
                                    !.c = SaveParameterSet(s.c, "Experiment",
                                                           chemicalSchema, experiment),
                                    !.chemical_ps = id]
                            ELSE s
                      paramset == IF s1.chemical_ps # 0
                                  THEN s1.chemical_ps ELSE s1.sample_ps
                      schema == IF s1.chemical_ps # 0
                                THEN chemicalSchema ELSE sampleSchema
                      found == NameMatches(catalog, schema, key)
                  IN  IF s1.c.error # "none" \/ value = <<>> \/ found = {}
                      THEN s1
                      ELSE [s1 EXCEPT !.c =
                              DbWrite(s1.c, AddParameter(s1.c.db, paramset,
                                [name |-> (CHOOSE n \in found : TRUE).name,
                                 value |-> value,
                                 numeric |-> FALSE]))]

SampleLine(s, line, catalog, experiment) ==
    IF s.c.error # "none" \/ line = <<>>
    THEN s
    ELSE LET parts == Split(line, KeyValueSep)
         IN  IF Len(parts) # 2
             THEN [s EXCEPT !.c.error = "ValueError"]
             ELSE LET key == parts[1]
                      value == parts[2]
                      id == s.c.db.seq + 1
                      s1 == IF key = SampleDescriptionKey \/ s.sample_ps = 0
                            THEN [c |-> SaveParameterSet(s.c, "Experiment",
                                                         sampleSchema, experiment),
                                  sample_ps |-> id,
                                  chemical_ps |-> 0]
                            ELSE IF key = ChemicalNameKey
                            THEN [s EXCEPT
                                    !.c = SaveParameterSet(s.c, "Experiment",
                                                           chemicalSchema, experiment),
                                    !.chemical_ps = id]
                            ELSE s
                      paramset == IF s1.chemical_ps # 0
                                  THEN s1.chemical_ps ELSE s1.sample_ps
                      schema == IF s1.chemical_ps # 0
                                THEN chemicalSchema ELSE sampleSchema
                      found == NameMatches(catalog, schema, key)
                  IN  IF s1.c.error # "none" \/ value = <<>>
                      THEN s1
                      ELSE IF found = {}
                      THEN s1
                      ELSE IF Cardinality(found) > 1
                      THEN [s1 EXCEPT !.c.error = "MultipleObjectsReturned"]
                      ELSE [s1 EXCEPT !.c =
                              DbWrite(s1.c, AddParameter(s1.c.db, paramset,
                                [name |-> (CHOOSE n \in found : TRUE).name,
                                 value |-> value,
                                 numeric |-> FALSE]))]

\* the loop of 430-463 from line i on
RECURSIVE SampleAll(_, _, _, _, _)
SampleAll(s, lines, i, catalog, experiment) ==
    IF i > Len(lines) THEN s
    ELSE Bind(SampleLine(s, lines[i], catalog, experiment),
              LAMBDA s1 : SampleAll(s1, lines, i + 1, catalog, experiment))

(***************************************************************************)
(* The lines a sample sheet is made of in the model, and the parameter     *)
(* names the repository may hold for the sample and chemical schemas.      *)
(***************************************************************************)
SamplePool ==
    << \* 1: SampleDescription : foo
       <<"S","a","m","p","l","e","D","e","s","c","r","i","p","t","i","o","n"," ",":"," ","f","o","o">>,
       \* 2: ChemicalName : bar
       <<"C","h","e","m","i","c","a","l","N","a","m","e"," ",":"," ","b","a","r">>,
       \* 3: Mass : 5 mg
       <<"M","a","s","s"," ",":"," ","5"," ","m","g">>,
       \* 4: ChemicalName :   (an empty value)
       <<"C","h","e","m","i","c","a","l","N","a","m","e"," ",":"," ">>,
       \* 5: the blank line
       <<>>,
       \* 6: junk
       <<"j","u","n","k">>,
       \* 7: a : b : c
       <<"a"," ",":"," ","b"," ",":"," ","c">> >>

StringName(n) == [name |-> n, numeric |-> FALSE]

NumericName(n) == [name |-> n, numeric |-> TRUE]

MassName == <<"m","a","s","s">>

\* every key of the pool is a name of both schemas (Mass as 'mass')
FullSampleCatalog ==
    [s \in {sampleSchema, chemicalSchema} |->
        {StringName(SampleDescriptionKey), StringName(ChemicalNameKey),
         StringName(MassName)}]

\* each schema holds its own names only
SplitSampleCatalog ==
    [s \in {sampleSchema, chemicalSchema} |->
        IF s = sampleSchema
        THEN {StringName(SampleDescriptionKey)}
        ELSE {StringName(ChemicalNameKey), StringName(MassName)}]

SampleCatalogs == {FullSampleCatalog, SplitSampleCatalog}

(***************************************************************************)
(* _save_parameters (223-269).                                             *)
(***************************************************************************)
Digits == {"0","1","2","3","4","5","6","7","8","9"}

\* float(t) succeeds, for the plain decimal numbers of the model: digits
\* with at most one '.', at least one digit (signs, exponents, inf and nan
\* are not written by the streams of the model)
IsFloat(t) ==
    /\ \A i \in 1..Len(t) : t[i] \in Digits \cup {"."}
    /\ \E i \in 1..Len(t) : t[i] \in Digits
    /\ Cardinality({i \in 1..Len(t) : t[i] = "."}) <= 1

\* 263-266: parameter.save() inside try/except: a failure is logged and
\* the loop goes on
SaveParameter(c, psetId, p) ==
    IF c.psaves + 1 \in c.faultPsaves
    THEN [c EXCEPT !.psaves = @ + 1, !.lost = @ + 1]
    ELSE [c EXCEPT !.psaves = @ + 1, !.db = AddParameter(c.db, psetId, p)]

\* 235-266: the loop over the values of one key, from value i on
RECURSIVE SaveItems(_, _, _, _, _)
SaveItems(c, psetId, pname, items, i) ==
    IF i > Len(items) THEN c
    ELSE IF pname.numeric
    THEN LET value == Split(items[i], <<" ">>)[1]
         IN  IF ~IsFloat(value)
             THEN SaveItems(c, psetId, pname, items, i + 1)
             ELSE Bind(SaveParameter(c, psetId,
                            [name |-> pname.name, value |-> value,
                             numeric |-> TRUE]),
                       LAMBDA c1 : SaveItems(c1, psetId, pname, items, i + 1))
    ELSE Bind(SaveParameter(c, psetId,
                    [name |-> pname.name, value |-> items[i],
                     numeric |-> FALSE]),
              LAMBDA c1 : SaveItems(c1, psetId, pname, items, i + 1))

\* 231-269: the loop over the keys still to handle (a dict: any order)
RECURSIVE SaveKeys(_, _, _, _, _, _)
SaveKeys(c, catalog, schema, psetId, data, keys) ==
    IF keys = {} \/ c.error # "none" THEN c
    ELSE LET key == CHOOSE k \in keys : TRUE
             found == NameMatches(catalog, schema, key)
         IN  Bind(IF found = {} THEN c
                  ELSE IF Cardinality(found) > 1
                  THEN [c EXCEPT !.error = "MultipleObjectsReturned"]
                  ELSE SaveItems(c, psetId, CHOOSE n \in found : TRUE,
                                 data[key], 1),
                  LAMBDA c1 :
                    SaveKeys(c1, catalog, schema, psetId, data, keys \ {key}))

save_parameters(c, catalog, schema, psetId, data) ==
    SaveKeys(c, catalog, schema, psetId, data, DOMAIN data)

(***************************************************************************)
(* _parse_metaman, the repository part.  st = [c, update, experiment]      *)
(* carries the context, the mode and the experiment's id.  A request req   *)
(* holds the fields of the form and the two uploads.                       *)
(***************************************************************************)
EPNName == <<"E","P","N">>

ListSep == <<",", " ">>

AuthorSep == <<" ", "~", " ">>

\* the template up to its %s
PROPDB_LINK_TEMPLATE ==
    <<"h","t","t","p","s",":","/","/","n","e","u","t","r","o","n",".","a","n","s","t","o",".","g","o","v",".","a","u","/","B","r","a","g","g","/","p","r","o","p","o","s","a","l","/","P","r","o","p","o","s","a","l","V","i","e","w",".","j","s","p","?","i","d","=">>

\* the rows the lookup of 353-354 joins: an experiment, one of its
\* parameter sets and a parameter of it named EPN with string value epn
EpnMatches(db, epn) ==
    UNION {{<<i, j>> : j \in {k \in 1..Len(db.psets[i].params) :
                                /\ db.psets[i].params[k].name = EPNName
                                /\ ~db.psets[i].params[k].numeric
                                /\ db.psets[i].params[k].value = epn}} :
           i \in {n \in 1..Len(db.psets) : db.psets[n].kind = "Experiment"}}

\* 352-371: find or make the experiment and save it
StageExperiment(c, req) ==
    LET matches == EpnMatches(c.db, req.epn)
        update == matches # {}
        id == IF update
              THEN c.db.psets[(CHOOSE m \in matches : TRUE)[1]].owner
              ELSE c.db.seq + 1
        row == [id |-> id, title |-> req.title]
    IN  IF Cardinality(matches) > 1
        THEN [c |-> [c EXCEPT !.error = "MultipleObjectsReturned"],
              update |-> TRUE, experiment |-> 0]
        ELSE [c |-> DbWrite(c,
                    IF update
                    THEN [c.db EXCEPT !.experiments =
                            [i \in 1..Len(@) |->
                                IF @[i].id = id THEN row ELSE @[i]]]
                    ELSE [c.db EXCEPT !.seq = @ + 1,
                                      !.experiments = Append(@, row)]),
              update |-> update, experiment |-> id]

\* 382-390: the loop over the researchers, from researcher i on
RECURSIVE SaveAuthors(_, _, _, _, _)
SaveAuthors(c, experiment, researchers, i, order) ==
    IF i > Len(researchers) THEN c
    ELSE IF researchers[i] = <<>>
    THEN SaveAuthors(c, experiment, researchers, i + 1, order)
    ELSE Bind(DbWrite(c, [c.db EXCEPT !.authors = Append(@,
                    [experiment |-> experiment, author |-> researchers[i],
                     order |-> order])]),
              LAMBDA c1 : SaveAuthors(c1, experiment, researchers, i + 1,
                                      order + 1))

\* 373-390: the authors of the experiment
StageAuthors(st, req) ==
    Bind(IF st.update
         THEN DbWrite(st.c, [st.c.db EXCEPT !.authors =
                SelectSeq(@, LAMBDA r : r.experiment # st.experiment)])
         ELSE st.c, LAMBDA c1 :
    Bind(DbWrite(c1, [c1.db EXCEPT !.authors = Append(@,
                [experiment |-> st.experiment,
                 author |-> req.experiment_owner, order |-> 0])]),
         LAMBDA c2 :
            [st EXCEPT !.c = SaveAuthors(c2, st.experiment,
                                Split(req.researchers, AuthorSep), 1, 1)]))

\* 402-410: experiment_metadata
ExperimentMetadata(req) ==
    LET epn == <<"e","p","n">>
        propdb_link == <<"p","r","o","p","d","b","_","l","i","n","k">>
        beamline == <<"b","e","a","m","l","i","n","e">>
        instrument_url == <<"i","n","s","t","r","u","m","e","n","t","_","u","r","l">>
        instrument_scientists == <<"i","n","s","t","r","u","m","e","n","t","_","s","c","i","e","n","t","i","s","t","s">>
    IN  [k \in {epn, propdb_link, beamline, instrument_url,
                instrument_scientists} |->
            CASE k = epn -> <<req.epn>>
              [] k = propdb_link -> <<PROPDB_LINK_TEMPLATE \o req.epn>>
              [] k = beamline -> Split(req.beamline, ListSep)
              [] k = instrument_url -> Split(req.instrument_url, ListSep)
              [] OTHER -> Split(req.instrument_scientists, ListSep)]

\* 392-412: the experiment's parameter set of the experiment schema
StageExperimentParameters(st, req, catalog) ==
    Bind(IF st.update
         THEN DeleteParameterSets(st.c, "Experiment", expSchema, st.experiment)
         ELSE st.c, LAMBDA c1 :
    Bind(SaveParameterSet(c1, "Experiment", expSchema, st.experiment),
         LAMBDA c2 :
            [st EXCEPT !.c =
                IF c2.error # "none" THEN c2
                ELSE save_parameters(c2, catalog, expSchema, c1.db.seq + 1,
                                     ExperimentMetadata(req))]))

\* 414-463: the sample sheet, when the request has one
StageSample(st, req, catalog) ==
    IF st.c.error # "none" \/ ~req.hasSample THEN st
    ELSE Bind(IF st.update
              THEN DeleteParameterSets(st.c, "Experiment", sampleSchema,
                                       st.experiment)
              ELSE st.c, LAMBDA c1 :
         Bind(IF st.update
              THEN DeleteParameterSets(c1, "Experiment", chemicalSchema,
                                       st.experiment)
              ELSE c1, LAMBDA c2 :
            [st EXCEPT !.c =
                SampleAll([c |-> c2, sample_ps |-> 0, chemical_ps |-> 0],
                          req.sample, 1, catalog, st.experiment).c]))

\* the loop of 466-495 from line i on
RECURSIVE ParseAll(_, _, _, _)
ParseAll(st, lines, i, beamlines) ==
    IF i > Len(lines) THEN st
    ELSE Bind(ParseLine(st, lines[i], beamlines),
              LAMBDA st1 : ParseAll(st1, lines, i + 1, beamlines))

VblProtocol == <<"v","b","l">>

VblUrl(name) == <<"v","b","l",":","/","/">> \o name

DataPrefix == <<"D","a","t","a","/">>

\* 575-610: one file of a dataset
StoreFile(st, catalog, dataset, df, beamlines) ==
    LET c == st.c
        url == VblUrl(df.name)
        existing == {i \in 1..Len(c.db.datafiles) :
                        /\ c.db.datafiles[i].dataset = dataset
                        /\ c.db.datafiles[i].url = url
                        /\ c.db.datafiles[i].protocol = VblProtocol}
        found == st.update /\ existing # {}
        id == IF found THEN c.db.datafiles[CHOOSE i \in existing : TRUE].id
              ELSE c.db.seq + 1
        beamline == getBeamline(df)
    IN  IF c.error # "none" THEN st
        ELSE IF st.update /\ Cardinality(existing) > 1
        THEN [st EXCEPT !.c.error = "MultipleObjectsReturned"]
        ELSE
        Bind(IF found
             THEN DbWrite(c, [c.db EXCEPT !.datafiles =
                    [i \in 1..Len(@) |->
                        IF @[i].id = id
                        THEN [@[i] EXCEPT !.size = df.size] ELSE @[i]]])
             ELSE DbWrite(c, [c.db EXCEPT
                    !.seq = @ + 1,
                    !.datafiles = Append(@,
                        [id |-> id, dataset |-> dataset,
                         filename |-> basename(df.name), url |-> url,
                         size |-> df.size, protocol |-> VblProtocol])]),
             LAMBDA c1 :
        IF c1.error # "none" THEN [st EXCEPT !.c = c1]
        ELSE IF ~InList(beamline, beamlines)
        THEN [st EXCEPT !.c = [c1 EXCEPT !.error = "KeyError"]]
        ELSE
        LET df_schema == config[beamline].dfSchema
            sets == {i \in 1..Len(c1.db.psets) :
                        /\ c1.db.psets[i].kind = "Datafile"
                        /\ c1.db.psets[i].schema = df_schema
                        /\ c1.db.psets[i].owner = id}
        IN
        Bind(IF ~st.update \/ sets = {} THEN c1
             ELSE IF Cardinality(sets) > 1
             THEN [c1 EXCEPT !.error = "MultipleObjectsReturned"]
             ELSE DeleteParameterSets(c1, "Datafile", df_schema, id),
             LAMBDA c2 :
        Bind(SaveParameterSet(c2, "Datafile", df_schema, id), LAMBDA c3 :
            [st EXCEPT !.c =
                IF c3.error # "none" THEN c3
                ELSE save_parameters(c3, catalog, df_schema, c2.db.seq + 1,
                                     df.data)])))

\* the loop of 575-610 from file j of the list ds on
RECURSIVE StoreFiles(_, _, _, _, _, _, _)
StoreFiles(st, catalog, dataset, ds, j, files, beamlines) ==
    IF j > Len(ds) \/ st.c.error # "none" THEN st
    ELSE Bind(StoreFile(st, catalog, dataset, files[ds[j]], beamlines),
              LAMBDA st1 : StoreFiles(st1, catalog, dataset, ds, j + 1,
                                      files, beamlines))

\* 544-610: one dataset of the grouping g
StoreDataset(st, catalog, dsName, g, files, beamlines) ==
    LET c == st.c
        description == Replace(dsName, DataPrefix, <<>>)
        existing == {i \in 1..Len(c.db.datasets) :
                        /\ c.db.datasets[i].experiment = st.experiment
                        /\ c.db.datasets[i].description = description}
        found == st.update /\ existing # {}
        id == IF found THEN c.db.datasets[CHOOSE i \in existing : TRUE].id
              ELSE c.db.seq + 1
    IN  IF c.error # "none" THEN st
        ELSE IF st.update /\ Cardinality(existing) > 1
        THEN [st EXCEPT !.c.error = "MultipleObjectsReturned"]
        ELSE
        Bind(IF found THEN c
             ELSE DbWrite(c, [c.db EXCEPT
                    !.seq = @ + 1,
                    !.datasets = Append(@,
                        [id |-> id, experiment |-> st.experiment,
                         description |-> description])]),
             LAMBDA c1 :
        IF c1.error # "none" THEN [st EXCEPT !.c = c1]
        ELSE IF dsName \notin DOMAIN g.metadata
        THEN StoreFiles([st EXCEPT !.c = c1], catalog, id, g.datasets[dsName],
                        1, files, beamlines)
        ELSE
        LET sets == {i \in 1..Len(c1.db.psets) :
                        /\ c1.db.psets[i].kind = "Dataset"
                        /\ c1.db.psets[i].schema = dsSchema
                        /\ c1.db.psets[i].owner = id}
        IN
        Bind(IF ~st.update \/ sets = {} THEN c1
             ELSE IF Cardinality(sets) > 1
             THEN [c1 EXCEPT !.error = "MultipleObjectsReturned"]
             ELSE DeleteParameterSets(c1, "Dataset", dsSchema, id),
             LAMBDA c2 :
        Bind(SaveParameterSet(c2, "Dataset", dsSchema, id), LAMBDA c3 :
        Bind(IF c3.error # "none" THEN c3
             ELSE save_parameters(c3, catalog, dsSchema, c2.db.seq + 1,
                                  g.metadata[dsName].data),
             LAMBDA c4 :
            StoreFiles([st EXCEPT !.c = c4], catalog, id, g.datasets[dsName],
                       1, files, beamlines)))))

\* the loop of 543-610 over datasets.items(), in the order the dict gives
\* them, from dataset n of that order on
RECURSIVE StoreDatasets(_, _, _, _, _, _, _)
StoreDatasets(st, catalog, order, n, g, files, beamlines) ==
    IF n > Len(order) \/ st.c.error # "none" THEN st
    ELSE Bind(StoreDataset(st, catalog, order[n], g, files, beamlines),
              LAMBDA st1 : StoreDatasets(st1, catalog, order, n + 1, g,
                                         files, beamlines))

django_group == "django_group"

AdminGroup == "admin"

\* Group.objects.get_or_create(name=name): a write when the group is new
GetOrCreateGroup(c, name) ==
    IF c.error # "none" \/ name \in c.db.groups THEN c
    ELSE DbWrite(c, [c.db EXCEPT !.groups = @ \cup {name}])

\* models.ExperimentACL(...).save(); a group stands for its id
SaveAcl(c, experiment, pluginId, entityId, isOwner) ==
    DbWrite(c, [c.db EXCEPT !.acls = Append(@,
        [experiment |-> experiment, pluginId |-> pluginId,
         entityId |-> entityId, isOwner |-> isOwner, canRead |-> TRUE])])

\* the loop of 646-661 from beamline i on
RECURSIVE BeamlineAcls(_, _, _, _)
BeamlineAcls(c, experiment, beamlines, i) ==
    IF i > Len(beamlines) THEN c
    ELSE LET group == config[beamlines[i]].beamline_group
         IN  Bind(GetOrCreateGroup(c, group), LAMBDA c1 :
             Bind(SaveAcl(c1, experiment, django_group, group, FALSE),
                  LAMBDA c2 : BeamlineAcls(c2, experiment, beamlines, i + 1)))

\* mutant: the permissions are set up in update mode too
StageAcls_Always(st, req, beamlines) ==
    Bind(BeamlineAcls(st.c, st.experiment, beamlines, 1), LAMBDA c1 :
    Bind(SaveAcl(c1, st.experiment, "vbl_group", req.epn, FALSE), LAMBDA c2 :
    Bind(GetOrCreateGroup(c2, AdminGroup), LAMBDA c3 :
        [st EXCEPT !.c = SaveAcl(c3, st.experiment, django_group,
                                 AdminGroup, TRUE)])))

\* 614-681: the permissions of a new experiment
StageAcls(st, req, beamlines) ==
    IF st.update THEN st
    ELSE
    Bind(BeamlineAcls(st.c, st.experiment, beamlines, 1), LAMBDA c1 :
    Bind(SaveAcl(c1, st.experiment, "vbl_group", req.epn, FALSE), LAMBDA c2 :
    Bind(GetOrCreateGroup(c2, AdminGroup), LAMBDA c3 :
        [st EXCEPT !.c = SaveAcl(c3, st.experiment, django_group,
                                 AdminGroup, TRUE)])))

(***************************************************************************)
(* The parameter names of the repository (the ParameterName table, which   *)
(* the program only reads) and the requests of the model.                  *)
(***************************************************************************)
KName == <<"K">>

Schemas ==
    {expSchema, dsSchema, sampleSchema, chemicalSchema} \cup
    {config[b].dfSchema : b \in ConfigKeys}

\* the names of every schema, given those of the sample and chemical
\* schemas: the experiment's EPN, the dataset's sample_name, and for the
\* files of a beamline the numeric K (Wombat also a numeric sample_name)
RepositoryCatalog(sampleCatalog) ==
    [s \in Schemas |->
        IF s \in DOMAIN sampleCatalog THEN sampleCatalog[s]
        ELSE IF s = expSchema THEN {StringName(EPNName)}
        ELSE IF s = dsSchema THEN {StringName(SampleNameKey)}
        ELSE IF s = config[Wombat].dfSchema
        THEN {NumericName(KName), NumericName(SampleNameKey)}
        ELSE {NumericName(KName)}]

\* the fields of a request: form fields as the text posted, the MetaMan
\* upload as lines of LinePool, the sample sheet as lines of SamplePool
Request(epn, title, beamline, researchers, metaman, hasSample, sample) ==
    [epn |-> epn, title |-> title, beamline |-> beamline,
     instrument_url |-> <<"u">>, instrument_scientists |-> <<"s">>,
     experiment_owner |-> <<"o","w","n","e","r">>, researchers |-> researchers,
     metaman |-> [i \in 1..Len(metaman) |-> LinePool[metaman[i]]],
     hasSample |-> hasSample,
     sample |-> [i \in 1..Len(sample) |-> SamplePool[sample[i]]]]

RequestPool ==
    << \* 1: EPN 1, Wombat; one file in dataset RunA; no sample sheet
       Request(<<"1">>, "t1", <<"W","o","m","b","a","t">>, <<>>,
               <<1, 9, 8>>, FALSE, <<>>),
       \* 2: EPN 1, three names; a file under sample_name RunA and an
       \*    Echidna file with a junk line; a well-formed sample sheet
       Request(<<"1">>, "t2", <<"B","o","g","u","s",","," ","E","c","h","i","d","n","a",","," ","W","o","m","b","a","t">>, <<"a"," ","~"," ","b">>,
               <<2, 6, 5, 3, 10, 9>>, TRUE, <<1, 2, 3>>),
       \* 3: EPN 2, no name of the registry
       Request(<<"2">>, "t3", <<"B","o","g","u","s">>, <<>>,
               <<1, 9>>, FALSE, <<>>),
       \* 4: EPN 1, Wombat; the file of request 1 under another sample
       \*    name; a sample sheet with an empty value
       Request(<<"1">>, "t4", <<"W","o","m","b","a","t">>, <<>>,
               <<1, 7>>, TRUE, <<3, 4>>),
       \* 5: EPN 1, Wombat; a sample sheet with a line that does not split
       \*    in two
       Request(<<"1">>, "t5", <<"W","o","m","b","a","t">>, <<>>,
               <<1, 9>>, TRUE, <<1, 6, 3>>),
       \* 6: EPN 2, Wombat; the upload of request 1 after a marker without
       \*    leading '/'
       Request(<<"2">>, "t6", <<"W","o","m","b","a","t">>, <<>>,
               <<11, 1, 9, 8>>, FALSE, <<>>) >>

\* 466-495 for the upload of each request of the pool: the list of files
\* the loop over its lines leaves
Uploads ==
    [q \in 1..Len(RequestPool) |->
        ParseAll([df |-> 0, files |-> <<>>], RequestPool[q].metaman, 1,
                 FilterBeamlines(Split(RequestPool[q].beamline, ListSep)))]

\* 506-528 for the upload of each request of the pool
Groupings ==
    [q \in 1..Len(RequestPool) |->
        GroupAll(config, [datasets |-> EmptyData, metadata |-> EmptyData,
                          error |-> "none"], Uploads[q].files, 1)]

\* the orders a dict may hand out the keys S in
Orderings(S) ==
    {o \in [1..Cardinality(S) -> S] :
        \A i, j \in 1..Cardinality(S) : i # j => o[i] # o[j]}

NoFault == [write |-> 0, psaves |-> {}]

\* the faults of a request that makes n writes and k parameter saves when
\* none fails: at most one of them fails
Faults(n, k) ==
    {[write |-> f, psaves |-> {}] : f \in 0..n} \cup
    {[write |-> 0, psaves |-> {p}] : p \in 1..k}

\* _parse_metaman (274-681) run on repository db for request q of the
\* pool, the gen-th request handled, with the given fault, parameter names
\* and dict order.  result is the value returned: an experiment id, or 0
\* for None
parse_metaman(db, gen, q, fault, catalog, order) ==
    LET req == RequestPool[q]
        beamlines == FilterBeamlines(Split(req.beamline, ListSep))
        c0 == NewContext(db, gen, fault.write, fault.psaves)
        p == Uploads[q]
        g == Groupings[q]
    IN  IF beamlines = <<>>
        THEN [c |-> c0, update |-> FALSE, experiment |-> 0, result |-> 0,
              datasets |-> EmptyData, files |-> <<>>]
        ELSE
        Bind(StageExperiment(c0, req), LAMBDA s1 :
        Bind(StageAuthors(s1, req), LAMBDA s2 :
        Bind(StageExperimentParameters(s2, req, catalog), LAMBDA s3 :
        Bind(StageSample(s3, req, catalog), LAMBDA s4 :
        Bind(IF s4.c.error = "none" /\ g.error # "none"
             THEN [s4 EXCEPT !.c.error = g.error]
             ELSE s4, LAMBDA s5 :
        Bind(StoreDatasets(s5, catalog, order, 1, g, p.files, beamlines),
             LAMBDA s6 :
        Bind(StageAcls(s6, req, beamlines), LAMBDA s7 :
            [c |-> s7.c, update |-> s7.update, experiment |-> s7.experiment,
             result |-> IF s7.c.error = "none" THEN s7.experiment ELSE 0,
             datasets |-> g.datasets, files |-> p.files])))))))

\* mutant: a request without a valid beamline is answered like a success
Respond_NoneAsText(r) ==
    IF r.c.error # "none" THEN [status |-> 500, body |-> 0]
    ELSE [status |-> 200, body |-> r.result]

\* 713-726: the response to an authenticated request whose parser run is r;
\* '%i' % None raises TypeError inside the try block
Respond(r) ==
    IF r.c.error # "none" \/ r.result = 0
    THEN [status |-> 500, body |-> 0]
    ELSE [status |-> 200, body |-> r.result]

\* @transaction.commit_on_success: the repository after the run r that
\* started from db
Committed(db, r) == IF r.c.error # "none" THEN db ELSE r.c.db

(***************************************************************************)
(* The state of the three specifications.                                  *)
(***************************************************************************)
VARIABLES
    registry,   \* _config, the beamline configuration registry
    beamlines_unfiltered, \* the beamlines the request names
    beamlines,  \* those of them that are keys of the registry
    input,      \* the lines read so far (indices in LinePool)
    phase,      \* "parsing" or "done"
    df,         \* index in files of the current Datafile, 0 for None
    files,      \* the list of Datafile records
    datasets,   \* dataset name -> list of files
    metadata,   \* dataset name -> dataset metadata
    gerror,     \* "none", or the exception the grouping loop raised
    catalog,    \* schema -> the parameter names the repository holds
    sinput,     \* the sample-sheet lines read so far (indices in SamplePool)
    sstate,     \* the sample loop: [c, sample_ps, chemical_ps]
    db,         \* the repository
    count,      \* the requests handled so far
    last,       \* the request handled last and how it ran
    created     \* experiment id -> the request that created it

parseVars == <<registry, beamlines_unfiltered, beamlines, input, phase, df, files, datasets, metadata, gerror>>

sampleVars == <<sinput, sstate>>

ingestVars == <<db, count, last, created>>

vars == <<parseVars, catalog, sampleVars, ingestVars>>

EmptyMap == [k \in {} |-> <<>>]

NoRequest ==
    [kind |-> "none", req |-> 0, gen |-> 0, status |-> 0, body |-> 0,
     update |-> FALSE, experiment |-> 0, error |-> "none",
     wrote |-> FALSE, writeFailed |-> FALSE, saveFailed |-> FALSE,
     datasets |-> EmptyMap, files |-> <<>>]

ParseIdle ==
    /\ registry = config
    /\ beamlines_unfiltered = <<>>
    /\ beamlines = <<>>
    /\ input = <<>>
    /\ phase = "idle"
    /\ df = 0
    /\ files = <<>>
    /\ datasets = EmptyMap
    /\ metadata = EmptyMap
    /\ gerror = "none"

SampleIdle ==
    /\ sinput = <<>>
    /\ sstate = [c |-> NewContext(EmptyDb, 0, 0, {}), sample_ps |-> 0,
                 chemical_ps |-> 0]

IngestIdle ==
    /\ db = EmptyDb
    /\ count = 0
    /\ last = NoRequest
    /\ created = EmptyMap

(***************************************************************************)
(* Spec: the block parser and the dataset grouper.                         *)
(***************************************************************************)
ParseStart ==
    /\ beamlines_unfiltered \in BeamlineRequests
    /\ beamlines = FilterBeamlines(beamlines_unfiltered)
    /\ input = <<>>
    /\ phase = "parsing"
    /\ df = 0
    /\ files = <<>>
    /\ datasets = EmptyMap
    /\ metadata = EmptyMap
    /\ gerror = "none"
    /\ catalog = RepositoryCatalog(SplitSampleCatalog)
    /\ SampleIdle
    /\ IngestIdle

\* the registry as shipped (31-85)
Init ==
    /\ registry = config
    /\ ParseStart

\* the loop of 466-495 reads the next line of the stream
ReadLine ==
    /\ phase = "parsing"
    /\ Len(input) < MaxLines
    /\ \E i \in 1..Len(LinePool) :
          LET st == ParseLine([df |-> df, files |-> files], LinePool[i], beamlines)
          IN  /\ input' = Append(input, i)
              /\ df' = st.df
              /\ files' = st.files
    /\ UNCHANGED <<registry, beamlines_unfiltered, beamlines, phase, datasets, metadata, gerror>>
    /\ UNCHANGED <<catalog, sampleVars, ingestVars>>

\* the stream ends and the loop of 512-528 groups the files
EndOfStream ==
    /\ phase = "parsing"
    /\ LET g == GroupAll(registry, [datasets |-> datasets,
                                    metadata |-> metadata,
                                    error |-> gerror], files, 1)
       IN  /\ datasets' = g.datasets
           /\ metadata' = g.metadata
           /\ gerror' = g.error
    /\ phase' = "done"
    /\ UNCHANGED <<registry, beamlines_unfiltered, beamlines, input, df, files>>
    /\ UNCHANGED <<catalog, sampleVars, ingestVars>>

Next == ReadLine \/ EndOfStream

Spec == Init /\ [][Next]_vars

(***************************************************************************)
(* PathSpec: the parser and the grouper on streams of marker lines whose   *)
(* paths have one segment, an empty segment or an empty basename, next to  *)
(* a metadata line.  input holds indices in PathPool.                      *)
(***************************************************************************)
PathPool ==
    <<
       \* 1: <b>/Wombat</b>:
       <<"<","b",">","/","W","o","m","b","a","t","<","/","b",">",":">>,
       \* 2: <b>/Wombat.hdf</b>:
       <<"<","b",">","/","W","o","m","b","a","t",".","h","d","f","<","/","b",">",":">>,
       \* 3: <b>/Wombat/.pdf</b>:
       <<"<","b",">","/","W","o","m","b","a","t","/",".","p","d","f","<","/","b",">",":">>,
       \* 4: <b>/Wombat/a.hdf/</b>:
       <<"<","b",">","/","W","o","m","b","a","t","/","a",".","h","d","f","/","<","/","b",">",":">>,
       \* 5: <b>//Wombat/a.hdf</b>:
       <<"<","b",">","/","/","W","o","m","b","a","t","/","a",".","h","d","f","<","/","b",">",":">>,
       \* 6: <b>/Echidna/h.HDF</b>:
       <<"<","b",">","/","E","c","h","i","d","n","a","/","h",".","H","D","F","<","/","b",">",":">>,
       \* 7: <b></b>:
       <<"<","b",">","<","/","b",">",":">>,
       \* 8: k : 5 mm
       <<"k"," ",":"," ","5"," ","m","m">> >>

\* the loop of 466-495 reads the next line of the stream
ReadPathLine ==
    /\ phase = "parsing"
    /\ Len(input) < MaxLines
    /\ \E i \in 1..Len(PathPool) :
          LET st == ParseLine([df |-> df, files |-> files], PathPool[i], beamlines)
          IN  /\ input' = Append(input, i)
              /\ df' = st.df
              /\ files' = st.files
    /\ UNCHANGED <<registry, beamlines_unfiltered, beamlines, phase, datasets, metadata, gerror>>
    /\ UNCHANGED <<catalog, sampleVars, ingestVars>>

PathNext == ReadPathLine \/ EndOfStream

PathSpec == Init /\ [][PathNext]_vars

(***************************************************************************)
(* MarkerSpec: the parser and the grouper when the registry gives a        *)
(* beamline a metadata-marker pattern (177-181).  The registries differ    *)
(* from the shipped one in that entry alone, which only _isDatasetMetadata *)
(* reads; a record exists for accepted file types only, so the pattern is  *)
(* one of those.                                                           *)
(***************************************************************************)
MetadataPdf == {<<".","p","d","f">>}

MarkedRegistries ==
    {[config EXCEPT ![b].metadata = MetadataPdf] : b \in {Wombat, Echidna}}

MarkerInit ==
    /\ registry \in MarkedRegistries
    /\ ParseStart

MarkerSpec == MarkerInit /\ [][Next]_vars

(***************************************************************************)
(* SampleSpec: the sample-sheet loop of a request that creates experiment  *)
(* 1, one line at a time, from the state the statements before the loop    *)
(* leave (352-412).                                                        *)
(***************************************************************************)
SampleRequest == RequestPool[2]

BeforeSample(cat) ==
    StageExperimentParameters(
        StageAuthors(StageExperiment(NewContext(EmptyDb, 1, 0, {}),
                                     SampleRequest),
                     SampleRequest),
        SampleRequest, cat)

SampleInit ==
    /\ ParseIdle
    /\ IngestIdle
    /\ catalog \in {RepositoryCatalog(sc) : sc \in SampleCatalogs}
    /\ sinput = <<>>
    /\ sstate = [c |-> BeforeSample(catalog).c, sample_ps |-> 0,
                 chemical_ps |-> 0]

\* the loop of 430-463 reads the next line of the sheet
SampleReadLine ==
    /\ Len(sinput) < MaxSampleLines
    /\ sstate.c.error = "none"
    /\ \E i \in 1..Len(SamplePool) :
          /\ sinput' = Append(sinput, i)
          /\ sstate' = SampleLine(sstate, SamplePool[i], catalog,
                                  BeforeSample(catalog).experiment)
    /\ UNCHANGED <<parseVars, catalog, ingestVars>>

SampleNext == SampleReadLine

SampleSpec == SampleInit /\ [][SampleNext]_vars

(***************************************************************************)
(* IngestSpec: requests handled one after the other by register_metaman,   *)
(* each in its transaction.                                                *)
(***************************************************************************)
IngestInit ==
    /\ ParseIdle
    /\ SampleIdle
    /\ catalog = RepositoryCatalog(SplitSampleCatalog)
    /\ IngestIdle

\* 699-726: an authenticated POST of request q of the pool.  last keeps
\* how it ran: whether it attempted a write, whether a write outside a try
\* block failed, whether a parameter save of _save_parameters failed
Register ==
    /\ count < MaxRequests
    /\ \E q \in 1..Len(RequestPool) :
       \E order \in Orderings(DOMAIN Groupings[q].datasets) :
       \E r0 \in {parse_metaman(db, count + 1, q, NoFault, catalog, order)} :
       \E fault \in Faults(r0.c.writes, r0.c.psaves) :
       \E r \in {parse_metaman(db, count + 1, q, fault, catalog, order)} :
       \E response \in {Respond(r)} :
          /\ db' = Committed(db, r)
          /\ last' = [kind |-> "ingest", req |-> q, gen |-> count + 1,
                      status |-> response.status, body |-> response.body,
                      update |-> r.update, experiment |-> r.experiment,
                      error |-> r.c.error,
                      wrote |-> r.c.writes + r.c.psaves > 0,
                      writeFailed |-> /\ fault.write # 0
                                      /\ r.c.writes >= fault.write,
                      saveFailed |-> r.c.lost > 0,
                      datasets |-> r.datasets, files |-> r.files]
          /\ created' = IF response.status = 200 /\ ~r.update
                        THEN PutKey(created, r.experiment, q)
                        ELSE created
    /\ count' = count + 1
    /\ UNCHANGED <<parseVars, catalog, sampleVars>>

\* 699-709: authenticate() returns no active user
RegisterForbidden ==
    /\ count < MaxRequests
    /\ last' = [NoRequest EXCEPT !.kind = "forbidden", !.gen = count + 1,
                                 !.status = 403]
    /\ count' = count + 1
    /\ UNCHANGED <<db, created, parseVars, catalog, sampleVars>>

IngestNext == Register \/ RegisterForbidden

IngestSpec == IngestInit /\ [][IngestNext]_vars

(***************************************************************************)
(* Claims.  The statements below are written from the claims' words, with  *)
(* their own reading of a line (marker, path, segments, key and value),    *)
(* and are checked against what the parser and the grouper compute.        *)
(***************************************************************************)
Range(f) == {f[x] : x \in DOMAIN f}

\* a line framed as <b> ... </b>:
IsMarkerLine(l) ==
    /\ Len(l) >= 8
    /\ \A i \in 1..3 : l[i] = TagOpen[i]
    /\ \A i \in 1..5 : l[Len(l) - 5 + i] = TagClose[i]

\* the text between the tags of a marker line
MarkerText(l) == [i \in 1..(Len(l) - 8) |-> l[i + 3]]

\* the path of a marker line as the parser takes it: the text between the
\* tags after its first character (the leading '/' of a MetaMan export)
MarkerPath(l) == [i \in 1..(Len(l) - 9) |-> l[i + 4]]

SlashPositions(p) == {i \in 1..Len(p) : p[i] = "/"}

SegmentCount(p) == Cardinality(SlashPositions(p)) + 1

\* position of the n-th '/', 0 for n = 0, Len(p) + 1 past the last one
SlashAt(p, n) ==
    IF n = 0 THEN 0
    ELSE IF n > Cardinality(SlashPositions(p)) THEN Len(p) + 1
    ELSE CHOOSE i \in SlashPositions(p) :
            Cardinality({j \in SlashPositions(p) : j <= i}) = n

\* the n-th '/'-separated segment of p, n in 1..SegmentCount(p)
Segment(p, n) == SubSeq(p, SlashAt(p, n - 1) + 1, SlashAt(p, n) - 1)

LastSegment(p) == Segment(p, SegmentCount(p))

\* a basename ending in .pdf or .hdf, in any case
AcceptedBasename(b) ==
    LET n == Len(b)
    IN  /\ n >= 4
        /\ b[n - 3] = "."
        /\ \/ b[n - 2] \in {"p", "P"} /\ b[n - 1] \in {"d", "D"} /\ b[n] \in {"f", "F"}
           \/ b[n - 2] \in {"h", "H"} /\ b[n - 1] \in {"d", "D"} /\ b[n] \in {"f", "F"}

\* the beamlines of the request that the registry knows
Selected == Range(beamlines_unfiltered) \cap ConfigKeys

OpensRecord(l) ==
    /\ IsMarkerLine(l)
    /\ Segment(MarkerPath(l), 1) \in Selected
    /\ AcceptedBasename(LastSegment(MarkerPath(l)))

RECURSIVE ExpectedPaths(_)
ExpectedPaths(in) ==
    IF in = <<>> THEN <<>>
    ELSE (IF OpensRecord(LinePool[Head(in)])
          THEN <<MarkerPath(LinePool[Head(in)])>>
          ELSE <<>>) \o ExpectedPaths(Tail(in))

RecordNames == [i \in 1..Len(files) |-> files[i].name]

\* C1: at every point of the parse the records are, in order, exactly the
\* paths of the marker lines read so far whose first path segment is a
\* selected beamline of the registry and whose basename is of an accepted
\* file type; every other marker line leaves no record.  The path of a
\* marker line is the path the parser takes from it (MarkerPath).
C1_OneRecordPerAcceptedMarker == RecordNames = ExpectedPaths(input)

\* C1 witness: two records in marker order after a stream that also holds a
\* marker of an unselected registry beamline and one of an unaccepted type
C1_Witness ==
    /\ Len(files) = 2
    /\ files[1].name # files[2].name
    /\ Echidna \notin Selected
    /\ \E i \in 1..Len(input) : input[i] = 3
    /\ \E i \in 1..Len(input) : input[i] = 4

SepPositions(l) ==
    {i \in 1..(Len(l) - 2) : l[i] = " " /\ l[i + 1] = ":" /\ l[i + 2] = " "}

FirstSep(l) == CHOOSE i \in SepPositions(l) : \A j \in SepPositions(l) : i <= j

KeyOf(l) == SubSeq(l, 1, FirstSep(l) - 1)

ValueOf(l) == SubSeq(l, FirstSep(l) + 3, Len(l))

\* a key with its spaces and '/' characters removed
NormalKey(k) == SelectSeq(k, LAMBDA c : c # " " /\ c # "/")

\* v with every " bytes" removed, scanning from the left
RECURSIVE WithoutBytes(_)
WithoutBytes(v) ==
    IF v = <<>> THEN <<>>
    ELSE IF Len(v) >= 6 /\ SubSeq(v, 1, 6) = BytesSuffix
    THEN WithoutBytes(SubSeq(v, 7, Len(v)))
    ELSE <<Head(v)>> \o WithoutBytes(Tail(v))

\* the step reads a key/value line while a record is current
C2Assigns(l) ==
    /\ df # 0
    /\ ~IsMarkerLine(l)
    /\ l # <<>>
    /\ SepPositions(l) # {}

C2Step ==
    (input' # input) =>
        LET l == LinePool[input'[Len(input')]]
        IN  IF C2Assigns(l)
            THEN LET old == files[df]
                     new == files'[df]
                     nk == NormalKey(KeyOf(l))
                 IN  /\ Len(files') = Len(files)
                     /\ \A j \in 1..Len(files) : j # df => files'[j] = files[j]
                     /\ new.name = old.name
                     /\ IF KeyOf(l) = FileSizeKey
                        THEN /\ new.data = old.data
                             /\ new.size = WithoutBytes(ValueOf(l))
                        ELSE /\ new.size = old.size
                             /\ DOMAIN new.data = DOMAIN old.data \cup {nk}
                             /\ new.data[nk] =
                                    (IF nk \in DOMAIN old.data
                                     THEN old.data[nk] ELSE <<>>)
                                    \o <<ValueOf(l)>>
                             /\ \A k \in DOMAIN old.data :
                                    k # nk => new.data[k] = old.data[k]
            ELSE /\ \A j \in 1..Len(files) : files'[j] = files[j]
                 /\ Len(files') > Len(files) =>
                        /\ files'[Len(files')].data = EmptyData
                        /\ files'[Len(files')].size = <<"0">>

\* C2: every key/value line given to a record changes that record alone:
\* a `File Size` line leaves the metadata map as it is and sets the size to
\* the value without " bytes"; any other line appends its value to the
\* sequence under the key without spaces and '/', leaving the size and the
\* other keys' sequences as they are.  Nothing else changes a record, which
\* starts with an empty map and size 0.
C2_Accumulation == [][C2Step]_vars

\* C2 witness: a record holding two values, in line order, from two
\* differently written sample_name keys, and the size of a `File Size` line
C2_Witness ==
    \E i \in 1..Len(files) :
        /\ files[i].size = <<"1","2">>
        /\ SampleNameKey \in DOMAIN files[i].data
        /\ files[i].data[SampleNameKey] =
             << <<"R","u","n","A">>,
                <<"L","o","g","B","o","o","k"," ",":"," ","c">> >>

\* the dataset name the sample-name strategy gives record r
SampleStrategyName(r) ==
    IF SampleNameKey \in DOMAIN r.data
    THEN r.data[SampleNameKey][1]
    ELSE IF Len(Segment(r.name, 2)) >= 7
            /\ SubSeq(Segment(r.name, 2), 1, 7) = LogBookPrefix
    THEN LogBooksName
    ELSE Segment(r.name, 2)

DatasetsOf(i) == {n \in DOMAIN datasets : \E j \in 1..Len(datasets[n]) : datasets[n][j] = i}

\* C3: after grouping, every record with metadata is filed under exactly
\* the name the sample-name strategy gives it: the first sample_name value
\* as it is, else the path's second segment, `Log Books` when that segment
\* starts with `LogBook`.
C3_SampleNameStrategy ==
    phase = "done" =>
        \A i \in 1..Len(files) :
            DOMAIN files[i].data # {} =>
                DatasetsOf(i) = {SampleStrategyName(files[i])}

\* C3 witness: a sample_name value starting with LogBook names its dataset
\* uncoerced, next to a record filed under `Log Books` by its directory
C3_Witness ==
    /\ phase = "done"
    /\ LogBooksName \in DOMAIN datasets
    /\ <<"L","o","g","B","o","o","k"," ",":"," ","c">> \in DOMAIN datasets

RunA == <<"R","u","n","A">>

\* two records, both of Wombat, both with metadata; one has sample_name
\* RunA and the other has no sample_name
C4Scenario ==
    /\ phase = "done"
    /\ Len(files) = 2
    /\ \A i \in {1, 2} :
          /\ Segment(files[i].name, 1) = Wombat
          /\ DOMAIN files[i].data # {}
    /\ \E i \in {1, 2} :
          /\ SampleNameKey \in DOMAIN files[i].data
          /\ files[i].data[SampleNameKey] = <<RunA>>
          /\ SampleNameKey \notin DOMAIN files[3 - i].data

C4Other == CHOOSE i \in {1, 2} : SampleNameKey \notin DOMAIN files[i].data

\* C4 as claimed: two accepted Wombat blocks, one with sample_name : RunA,
\* always give the single dataset RunA holding both files in block order.
C4_AsClaimed ==
    C4Scenario => datasets = [n \in {RunA} |-> <<1, 2>>]

\* C4 amended: the two blocks give the single dataset RunA with both files
\* in block order when the second path segment of the block without
\* sample_name is RunA; otherwise that block is filed alone under the name
\* its own path gives it and RunA holds the other file only.
C4_EndToEndGrouping ==
    C4Scenario =>
        IF Segment(files[C4Other].name, 2) = RunA
        THEN datasets = [n \in {RunA} |-> <<1, 2>>]
        ELSE /\ DOMAIN datasets = {RunA, SampleStrategyName(files[C4Other])}
             /\ datasets[RunA] = <<3 - C4Other>>
             /\ datasets[SampleStrategyName(files[C4Other])] = <<C4Other>>

\* C4 witness: the block with sample_name : RunA lies in another directory
\* and is followed by a block in directory RunA; both are in dataset RunA
C4_Witness ==
    /\ C4Scenario
    /\ C4Other = 2
    /\ Segment(files[1].name, 2) # RunA
    /\ datasets = [n \in {RunA} |-> <<1, 2>>]

(***************************************************************************)
(* C5: the groupings of the sample sheet.                                  *)
(***************************************************************************)
SheetLines == [i \in 1..Len(sinput) |-> SamplePool[sinput[i]]]

\* every line read is blank or holds exactly one ' : '
SheetOfKeyValueLines ==
    \A i \in 1..Len(sinput) :
        SheetLines[i] = <<>> \/ Cardinality(SepPositions(SheetLines[i])) = 1

SameLetter(a, b) ==
    a = b \/ \E i \in 1..Len(UpperChars) : {a, b} = {UpperChars[i], LowerChars[i]}

SameName(a, b) ==
    Len(a) = Len(b) /\ \A i \in 1..Len(a) : SameLetter(a[i], b[i])

GroupingSchema(kind) == IF kind = "chemical" THEN chemicalSchema ELSE sampleSchema

\* the groupings the rules give for the first n lines of the sheet, each
\* with the key/value pairs stored in it; with byCatalog, only keys that
\* are parameter names of the grouping's schema are stored
RECURSIVE ExpectedGroupings(_, _)
ExpectedGroupings(n, byCatalog) ==
    IF n = 0 THEN <<>>
    ELSE LET g == ExpectedGroupings(n - 1, byCatalog)
             l == SheetLines[n]
         IN  IF l = <<>> THEN g
             ELSE LET opened ==
                        IF KeyOf(l) = SampleDescriptionKey \/ g = <<>>
                        THEN Append(g, [kind |-> "sample", entries |-> <<>>])
                        ELSE IF KeyOf(l) = ChemicalNameKey
                        THEN Append(g, [kind |-> "chemical", entries |-> <<>>])
                        ELSE g
                      known ==
                        \E n2 \in catalog[GroupingSchema(opened[Len(opened)].kind)] :
                            SameName(n2.name, KeyOf(l))
                  IN  IF ValueOf(l) = <<>> \/ (byCatalog /\ ~known)
                      THEN opened
                      ELSE [opened EXCEPT ![Len(opened)].entries =
                                Append(@, <<KeyOf(l), ValueOf(l)>>)]

\* the sample and chemical parameter sets of the repository, in the order
\* they were created
StoredGroupings ==
    SelectSeq(sstate.c.db.psets,
              LAMBDA r : r.schema \in {sampleSchema, chemicalSchema})

StoredAre(g) ==
    /\ Len(StoredGroupings) = Len(g)
    /\ \A i \in 1..Len(g) :
          /\ StoredGroupings[i].kind = "Experiment"
          /\ StoredGroupings[i].owner = 1
          /\ StoredGroupings[i].schema = GroupingSchema(g[i].kind)
          /\ Len(StoredGroupings[i].params) = Len(g[i].entries)
          /\ \A j \in 1..Len(g[i].entries) :
                /\ SameName(StoredGroupings[i].params[j].name, g[i].entries[j][1])
                /\ StoredGroupings[i].params[j].value = g[i].entries[j][2]

\* C5 as claimed: over key/value lines the repository holds the groupings
\* the rules open, in line order, and every line with a non-empty value is
\* stored in the grouping open when it is read.
C5_AsClaimed ==
    SheetOfKeyValueLines => StoredAre(ExpectedGroupings(Len(sinput), FALSE))

\* C5 amended: over key/value lines the repository holds the groupings the
\* rules open, in line order (SampleDescription or the first non-blank line
\* opens a sample grouping and closes the chemical one, ChemicalName opens
\* a chemical grouping), and a line with a non-empty value is stored in the
\* chemical grouping if one is open and else in the sample grouping exactly
\* when its key is, ignoring case, a parameter name of that grouping's
\* schema; an empty value or an unknown key stores nothing.
C5_SampleGroupings ==
    SheetOfKeyValueLines => StoredAre(ExpectedGroupings(Len(sinput), TRUE))

\* C5 witness: SampleDescription : foo, ChemicalName : bar, Mass : 5 mg
\* are stored as a sample grouping {SampleDescription=foo} followed by a
\* chemical grouping {ChemicalName=bar, mass=5 mg}
C5_Witness ==
    /\ sinput = <<1, 2, 3>>
    /\ Len(StoredGroupings) = 2
    /\ StoredGroupings[1].schema = sampleSchema
    /\ StoredGroupings[1].params =
          <<[name |-> SampleDescriptionKey, value |-> <<"f","o","o">>,
             numeric |-> FALSE]>>
    /\ StoredGroupings[2].schema = chemicalSchema
    /\ StoredGroupings[2].params =
          <<[name |-> ChemicalNameKey, value |-> <<"b","a","r">>,
             numeric |-> FALSE],
            [name |-> MassName, value |-> <<"5"," ","m","g">>,
             numeric |-> FALSE]>>

(***************************************************************************)
(* C6: a request without a valid beamline.                                 *)
(***************************************************************************)
\* name is the item at position i of the list text, which ', ' separates
ItemAt(text, name, i) ==
    /\ i + Len(name) - 1 <= Len(text)
    /\ SubSeq(text, i, i + Len(name) - 1) = name
    /\ i = 1 \/ (i > 2 /\ SubSeq(text, i - 2, i - 1) = <<",", " ">>)
    /\ \/ i + Len(name) - 1 = Len(text)
       \/ /\ i + Len(name) + 1 <= Len(text)
          /\ SubSeq(text, i + Len(name), i + Len(name) + 1) = <<",", " ">>

ItemCount(text, name) == Cardinality({i \in 1..Len(text) : ItemAt(text, name, i)})

RegistryNames == {Echidna, Kowari, Platypus, Quokka, Wombat}

NoValidBeamline(q) ==
    \A name \in RegistryNames : ItemCount(RequestPool[q].beamline, name) = 0

\* C6: a request none of whose beamline names is a key of the registry
\* leaves the repository as it was, attempts no write, and is answered
\* with the failure signal and no experiment identifier.
C6_NoValidBeamlines ==
    [][(last'.kind = "ingest" /\ NoValidBeamline(last'.req)) =>
            /\ db' = db
            /\ ~last'.wrote
            /\ last'.status = 500
            /\ last'.body = 0]_vars

\* C6 witness: the request without a valid beamline came after a
\* successful ingestion and was answered with the failure signal
C6_Witness ==
    /\ last.kind = "ingest"
    /\ NoValidBeamline(last.req)
    /\ last.status = 500
    /\ Len(db.experiments) = 1
    /\ Len(db.acls) > 0

(***************************************************************************)
(* C7: update mode and the access-control entries.                         *)
(***************************************************************************)
AclsOf(e) == SelectSeq(db.acls, LAMBDA r : r.experiment = e)

\* the number of read grants of experiment e for the group of beamline b
BeamlineGrants(e, b) ==
    Cardinality({i \in 1..Len(AclsOf(e)) :
        /\ AclsOf(e)[i].pluginId = "django_group"
        /\ AclsOf(e)[i].entityId = config[b].beamline_group
        /\ ~AclsOf(e)[i].isOwner
        /\ AclsOf(e)[i].canRead})

EpnGrants(e, epn) ==
    Cardinality({i \in 1..Len(AclsOf(e)) :
        /\ AclsOf(e)[i].pluginId = "vbl_group"
        /\ AclsOf(e)[i].entityId = epn
        /\ ~AclsOf(e)[i].isOwner
        /\ AclsOf(e)[i].canRead})

AdminGrants(e) ==
    Cardinality({i \in 1..Len(AclsOf(e)) :
        /\ AclsOf(e)[i].pluginId = "django_group"
        /\ AclsOf(e)[i].entityId = "admin"
        /\ AclsOf(e)[i].isOwner
        /\ AclsOf(e)[i].canRead})

RECURSIVE SelectedCount(_, _)
SelectedCount(text, names) ==
    IF names = {} THEN 0
    ELSE LET b == CHOOSE x \in names : TRUE
         IN  ItemCount(text, b) + SelectedCount(text, names \ {b})

\* the entries of e are those the request q that created it writes
AclsAsCreated(e, q) ==
    /\ \A b \in RegistryNames :
          BeamlineGrants(e, b) = ItemCount(RequestPool[q].beamline, b)
    /\ EpnGrants(e, RequestPool[q].epn) = 1
    /\ AdminGrants(e) = 1
    /\ Len(AclsOf(e)) = 2 + SelectedCount(RequestPool[q].beamline, RegistryNames)

\* C7: whatever ingestions follow the one that created an experiment, its
\* access-control entries are exactly those that ingestion wrote: one read
\* grant per selected beamline group, one for the EPN group, one owner
\* grant for the admin group; and every entry belongs to an experiment.
C7_UpdateKeepsAcls ==
    /\ \A i \in 1..Len(db.experiments) :
          /\ db.experiments[i].id \in DOMAIN created
          /\ AclsAsCreated(db.experiments[i].id, created[db.experiments[i].id])
    /\ \A i \in 1..Len(db.acls) :
          \E j \in 1..Len(db.experiments) :
              db.acls[i].experiment = db.experiments[j].id

\* C7 witness: the experiment was created by request 1 (Wombat) and
\* updated with success by request 2, which selects Echidna too
C7_Witness ==
    /\ last.kind = "ingest"
    /\ last.update
    /\ last.status = 200
    /\ last.req = 2
    /\ last.experiment \in DOMAIN created
    /\ created[last.experiment] = 1
    /\ BeamlineGrants(last.experiment, Wombat) = 1
    /\ BeamlineGrants(last.experiment, Echidna) = 0

(***************************************************************************)
(* C8: update mode and the parameter sets.                                 *)
(***************************************************************************)
SetsOf(kind, schema, owner) ==
    SelectSeq(db.psets, LAMBDA r : r.kind = kind /\ r.schema = schema
                                   /\ r.owner = owner)

\* owner has exactly one parameter set of the schema, made by the request
\* handled last, and every value in it is one of values
OneFreshSet(kind, schema, owner, values) ==
    /\ Len(SetsOf(kind, schema, owner)) = 1
    /\ SetsOf(kind, schema, owner)[1].gen = last.gen
    /\ \A j \in 1..Len(SetsOf(kind, schema, owner)[1].params) :
          SetsOf(kind, schema, owner)[1].params[j].value \in values

DatasetRows(e, description) ==
    SelectSeq(db.datasets, LAMBDA r : r.experiment = e
                                      /\ r.description = description)

DatafileRows(dataset, name) ==
    SelectSeq(db.datafiles,
              LAMBDA r : r.dataset = dataset
                         /\ r.url = <<"v","b","l",":","/","/">> \o name)

FirstToken(v) ==
    IF \E i \in 1..Len(v) : v[i] = " "
    THEN SubSeq(v, 1, (CHOOSE i \in 1..Len(v) :
                          v[i] = " " /\ \A j \in 1..(i - 1) : v[j] # " ") - 1)
    ELSE v

\* the values of the block of file f, whole or cut at their first blank
BlockValues(f) ==
    UNION {UNION {{f.data[k][i], FirstToken(f.data[k][i])} :
                  i \in 1..Len(f.data[k])} : k \in DOMAIN f.data}

C9_AsClaimed == sstate.c.error = "none"

(***************************************************************************)
(* C10: failing writes.                                                    *)
(***************************************************************************)
\* C10 as claimed: a request during which a write failed, the save of a
\* single parameter value included, is answered with the failure signal.
C10_AsClaimed ==
    (last.kind = "ingest" /\ (last.writeFailed \/ last.saveFailed)) =>
        (last.status = 500 /\ last.body = 0)

\* C10 amended: a request during which a write failed, other than the save
\* of a single parameter value in _save_parameters, is answered with the
\* failure signal and no experiment identifier.
C10_WriteFailuresSurfaced ==
    (last.kind = "ingest" /\ last.writeFailed) =>
        (last.status = 500 /\ last.body = 0)

\* C10 witness: a write failed in an update of an existing experiment and
\* the request was answered with the failure signal
C10_Witness ==
    /\ last.kind = "ingest"
    /\ last.writeFailed
    /\ last.update
    /\ last.error = "DatabaseError"
    /\ last.status = 500
    /\ Len(db.experiments) = 1

(***************************************************************************)
(* C11: the attribution of metadata lines to records.                      *)
(***************************************************************************)
\* the positions of the marker lines and blank lines read so far
Delimiters(in) ==
    {p \in 1..Len(in) : IsMarkerLine(LinePool[in[p]]) \/ LinePool[in[p]] = <<>>}

\* the record a key/value line read after `in` belongs to by the claim: the
\* one opened by the most recent marker line when no blank line was read
\* since; 0 after a skipped marker, a blank line or the start of the stream
AttributedRecord(in) ==
    IF Delimiters(in) = {} THEN 0
    ELSE LET p == CHOOSE x \in Delimiters(in) : \A y \in Delimiters(in) : y <= x
         IN  IF OpensRecord(LinePool[in[p]])
             THEN Cardinality({x \in 1..p : OpensRecord(LinePool[in[x]])})
             ELSE 0

C11Step ==
    (input' # input) =>
        LET l == LinePool[input'[Len(input')]]
        IN  (~IsMarkerLine(l) /\ l # <<>>) =>
                /\ Len(files') = Len(files)
                /\ \A j \in 1..Len(files) :
                      files'[j] # files[j] => j = AttributedRecord(input)

\* C11: a key/value line changes a record only if the most recent marker
\* line before it opened that record and no blank line lies between; after
\* a skipped marker, a blank line or the start of the stream it changes no
\* record.
C11_AsClaimed == [][C11Step]_vars

(***************************************************************************)
(* C12: the dataset metadata record under a metadata-marker pattern.       *)
(***************************************************************************)
\* record r is of a beamline with a metadata-marker pattern and its
\* basename matches it: it ends in .pdf, in any case
IsMetadataRecord(r) ==
    LET b == LastSegment(r.name)
        n == Len(b)
    IN  /\ registry[Segment(r.name, 1)].metadata # NoPattern
        /\ n >= 4
        /\ b[n - 3] = "."
        /\ b[n - 2] \in {"p", "P"} /\ b[n - 1] \in {"d", "D"} /\ b[n] \in {"f", "F"}

\* the records with metadata of dataset name N whose basename matches
MetadataRecordsOf(N) ==
    {i \in 1..Len(files) :
        /\ DOMAIN files[i].data # {}
        /\ IsMetadataRecord(files[i])
        /\ SampleStrategyName(files[i]) = N}

WithGenericKey == {i \in 1..Len(files) : DOMAIN files[i].data # {}}

\* how often record i stands in the file list of dataset n
TimesIn(n, i) == Cardinality({j \in 1..Len(datasets[n]) : datasets[n][j] = i})

\* C13: with the shipped registry, after grouping every record with a
\* generic metadata key stands exactly once in exactly one file list, the
\* one of the name its beamline's strategy gives it; every list is in parse
\* order; a record without generic key (one with `File Size` lines only
\* too) stands in no list and gives no dataset name; and the metadata map
\* has the names of the file-list map, each with exactly
\* {sample_name: [name]}.
C13_GroupingPartition ==
    (phase = "done" /\ registry = config) =>
        /\ gerror = "none"
        /\ \A i \in WithGenericKey :
              /\ DatasetsOf(i) = {SampleStrategyName(files[i])}
              /\ TimesIn(SampleStrategyName(files[i]), i) = 1
        /\ \A n \in DOMAIN datasets :
              \A j, k \in 1..Len(datasets[n]) :
                  j < k => datasets[n][j] < datasets[n][k]
        /\ \A i \in (1..Len(files)) \ WithGenericKey : DatasetsOf(i) = {}
        /\ DOMAIN datasets = {SampleStrategyName(files[i]) : i \in WithGenericKey}
        /\ DOMAIN metadata = DOMAIN datasets
        /\ \A n \in DOMAIN metadata :
              /\ metadata[n].file = 0
              /\ DOMAIN metadata[n].data = {SampleNameKey}
              /\ metadata[n].data[SampleNameKey] = <<n>>

\* C13 witness: a record that got a `File Size` line only, left out of the
\* grouping, before a record of the same directory that is grouped
C13_Witness ==
    /\ phase = "done"
    /\ registry = config
    /\ Len(files) = 2
    /\ files[1].size = <<"1","2">>
    /\ DOMAIN files[1].data = {}
    /\ files[2].name = files[1].name
    /\ datasets = [n \in {RunA} |-> <<2>>]

(***************************************************************************)
(* C14: the framing of a marker line.                                      *)
(***************************************************************************)
\* the registry beamlines that the beamline field of request q names
SelectedOf(q) ==
    {b \in RegistryNames : ItemCount(RequestPool[q].beamline, b) > 0}

\* the text between the tags of marker line l after its first k characters
TextAfter(l, k) == [i \in 1..(Len(l) - 8 - k) |-> l[i + 3 + k]]

\* the paths of the records a stream opens when the path of a marker line
\* is the text between the tags after its first k characters: the line
\* opens a record if the first segment of the path is a selected beamline
\* and the basename is of an accepted type
RECURSIVE FramedPaths(_, _, _)
FramedPaths(lines, sel, k) ==
    IF lines = <<>> THEN <<>>
    ELSE (IF /\ IsMarkerLine(Head(lines))
             /\ Segment(TextAfter(Head(lines), k), 1) \in sel
             /\ AcceptedBasename(LastSegment(TextAfter(Head(lines), k)))
          THEN <<TextAfter(Head(lines), k)>>
          ELSE <<>>) \o FramedPaths(Tail(lines), sel, k)

LastFileNames == [i \in 1..Len(last.files) |-> last.files[i].name]

\* the records of the last upload that the grouping filed
LastGrouped ==
    {i \in 1..Len(last.files) :
        \E n \in DOMAIN last.datasets :
            \E j \in 1..Len(last.datasets[n]) : last.datasets[n][j] = i}

\* file f of dataset n of the last upload is stored under the schema of
\* beamline b: its row has a parameter set of this ingestion, and every
\* parameter set this ingestion gave it is of b's schema
StoredUnder(n, f, b) ==
    /\ DatasetRows(last.experiment, n) # <<>>
    /\ LET rows == DatafileRows(DatasetRows(last.experiment, n)[1].id, f.name)
       IN  /\ rows # <<>>
           /\ \E i \in 1..Len(db.psets) :
                 /\ db.psets[i].kind = "Datafile"
                 /\ db.psets[i].owner = rows[1].id
                 /\ db.psets[i].gen = last.gen
           /\ \A i \in 1..Len(db.psets) :
                 (/\ db.psets[i].kind = "Datafile"
                  /\ db.psets[i].owner = rows[1].id
                  /\ db.psets[i].gen = last.gen)
                    => db.psets[i].schema = config[b].dfSchema

\* the last request was ingested with success and its records were
\* accepted, grouped and stored by the first segment of their paths, a path
\* being the text between the tags after its first k characters
FramedBy(k) ==
    (last.kind = "ingest" /\ last.status = 200) =>
        /\ LastFileNames =
              FramedPaths(RequestPool[last.req].metaman,
                          SelectedOf(last.req), k)
        /\ \A i \in 1..Len(last.files) :
              DOMAIN last.files[i].data # {} => i \in LastGrouped
        /\ \A n \in DOMAIN last.datasets :
              \A j \in 1..Len(last.datasets[n]) :
                  LET f == last.files[last.datasets[n][j]]
                  IN  /\ config[Segment(f.name, 1)].groupDSRules = <<"sample">>
                      /\ n = SampleStrategyName(f)
                      /\ StoredUnder(n, f, Segment(f.name, 1))

\* C14 as claimed: the record a marker line opens has as path the whole
\* text between the tags, and the beamline that accepts, groups and stores
\* it is the first segment of that text.
C14_AsClaimed == FramedBy(0)

\* C14 amended: the record a marker line opens has as path the text between
\* the tags without its first character, and the beamline that accepts,
\* groups and stores it is the first segment of that path.
C14_MarkerFraming == FramedBy(1)

\* C14 witness: request 2 was ingested with success: a Wombat record and an
\* Echidna record, each stored under its own beamline's schema
C14_Witness ==
    /\ last.kind = "ingest"
    /\ last.status = 200
    /\ last.req = 2
    /\ Len(last.files) = 2
    /\ Segment(last.files[1].name, 1) = Wombat
    /\ Segment(last.files[2].name, 1) = Echidna
    /\ LastGrouped = {1, 2}
    /\ \E i, j \in 1..Len(db.psets) :
          /\ db.psets[i].kind = "Datafile"
          /\ db.psets[i].schema = config[Wombat].dfSchema
          /\ db.psets[j].kind = "Datafile"
          /\ db.psets[j].schema = config[Echidna].dfSchema

(***************************************************************************)
(* C15: the lookups of grouping and storage on a parsed record.            *)
(***************************************************************************)
\* the keys of the datafile-schema table, built from the filtered list
SchemaTableKeys == {beamlines[i] : i \in 1..Len(beamlines)}

\* C15: every record has a path of at least two segments whose first one
\* is a beamline the request names and the registry knows; so the registry
\* has an entry for it, the datafile-schema table has it as key, and the
\* grouping names every record with metadata without failing.
C15_LookupsDefined ==
    /\ \A i \in 1..Len(files) :
          /\ SegmentCount(files[i].name) >= 2
          /\ Segment(files[i].name, 1) \in Range(beamlines_unfiltered)
          /\ Segment(files[i].name, 1) \in RegistryNames
          /\ Segment(files[i].name, 1) \in DOMAIN registry
          /\ Segment(files[i].name, 1) \in SchemaTableKeys
    /\ phase = "done" =>
          /\ gerror = "none"
          /\ \A i \in 1..Len(files) :
                DOMAIN files[i].data # {} =>
                    DatasetsOf(i) = {Segment(files[i].name, 2)}

\* C15 witness: after markers with a one-segment path, the record of the
\* two-segment path Wombat/.pdf is grouped under its second segment
C15_Witness ==
    /\ phase = "done"
    /\ gerror = "none"
    /\ \E p, q \in 1..Len(input) : input[p] = 1 /\ input[q] = 2
    /\ Len(files) = 1
    /\ files[1].name = <<"W","o","m","b","a","t","/",".","p","d","f">>
    /\ datasets = [n \in {<<".","p","d","f">>} |-> <<1>>]

=============================================================================
